---- MODULE Spec2Model ----
(***************************************************************************)
(* A model of wavio: wavio.write (integer range clipping, float amplitude  *)
(* mapping, little-endian PCM encoding) and wavio.read (PCM decoding with  *)
(* 24-bit sign extension).                                                 *)
(*                                                                         *)
(* Numbers.  TLC integers are 32 bits wide, and the program computes with  *)
(* 64-bit integers and IEEE-754 binary64 floats.  Naturals wider than 31   *)
(* bits are therefore sequences of limbs (little-endian, radix Base), and  *)
(* a float is a record [k, s, m, e]: kind, sign bit, a 53-bit mantissa     *)
(* (a limb sequence) and a binary exponent, its value being                *)
(* (-1)^s * m * 2^e.  Every float operation rounds to nearest, ties to     *)
(* even, as binary64 does.  The exponent is unbounded: overflow to         *)
(* infinity and subnormals are outside the model.                          *)
(***************************************************************************)
EXTENDS Integers, Sequences, FiniteSets, TLC

(***************************************************************************)
(* Naturals of any width: sequences of limbs, least significant first,     *)
(* with no leading zero limb; <<>> is zero.                                *)
(***************************************************************************)
LimbBits == 15

Base == 2^LimbBits

Max(a, b) == IF a >= b THEN a ELSE b

Min(a, b) == IF a <= b THEN a ELSE b

RECURSIVE NatTrim(_)
NatTrim(a) ==
    IF a = <<>> THEN a
    ELSE IF a[Len(a)] = 0 THEN NatTrim(SubSeq(a, 1, Len(a) - 1))
    ELSE a

RECURSIVE NatFromInt(_)
NatFromInt(n) ==
    IF n = 0 THEN <<>> ELSE <<n % Base>> \o NatFromInt(n \div Base)

Limb(a, i) == IF i <= Len(a) THEN a[i] ELSE 0

RECURSIVE NatCmpFrom(_, _, _)
NatCmpFrom(a, b, i) ==
    IF i = 0 THEN 0
    ELSE IF a[i] < b[i] THEN -1
    ELSE IF a[i] > b[i] THEN 1
    ELSE NatCmpFrom(a, b, i - 1)

\* -1, 0 or 1 as a < b, a = b or a > b
NatCmp(a, b) ==
    IF Len(a) < Len(b) THEN -1
    ELSE IF Len(a) > Len(b) THEN 1
    ELSE NatCmpFrom(a, b, Len(a))

RECURSIVE NatAddFrom(_, _, _, _)
NatAddFrom(a, b, i, carry) ==
    IF i > Len(a) /\ i > Len(b)
    THEN (IF carry = 0 THEN <<>> ELSE <<carry>>)
    ELSE LET t == Limb(a, i) + Limb(b, i) + carry
         IN  <<t % Base>> \o NatAddFrom(a, b, i + 1, t \div Base)

NatAdd(a, b) == NatAddFrom(a, b, 1, 0)

RECURSIVE NatSubFrom(_, _, _, _)
NatSubFrom(a, b, i, borrow) ==
    IF i > Len(a) THEN <<>>
    ELSE LET t == a[i] - Limb(b, i) - borrow
         IN  <<t % Base>> \o NatSubFrom(a, b, i + 1, IF t < 0 THEN 1 ELSE 0)

\* a - b, for a >= b
NatSub(a, b) == NatTrim(NatSubFrom(a, b, 1, 0))

RECURSIVE NatMulSmallFrom(_, _, _, _)
NatMulSmallFrom(a, k, i, carry) ==
    IF i > Len(a) THEN (IF carry = 0 THEN <<>> ELSE <<carry>>)
    ELSE LET t == a[i] * k + carry
         IN  <<t % Base>> \o NatMulSmallFrom(a, k, i + 1, t \div Base)

\* a * k, for 0 <= k < Base
NatMulSmall(a, k) == IF k = 0 THEN <<>> ELSE NatMulSmallFrom(a, k, 1, 0)

Zeros(n) == [i \in 1..n |-> 0]

RECURSIVE NatMulFrom(_, _, _)
NatMulFrom(a, b, j) ==
    IF j > Len(b) THEN <<>>
    ELSE NatAdd(IF b[j] = 0 \/ a = <<>> THEN <<>>
                ELSE Zeros(j - 1) \o NatMulSmall(a, b[j]),
                NatMulFrom(a, b, j + 1))

NatMul(a, b) == NatMulFrom(a, b, 1)

RECURSIVE NatDivSmallFrom(_, _, _, _)
NatDivSmallFrom(a, d, i, rem) ==
    IF i = 0 THEN <<>>
    ELSE LET t == rem * Base + a[i]
         IN  NatDivSmallFrom(a, d, i - 1, t % d) \o <<t \div d>>

\* floor(a / d), for 0 < d <= Base
NatDivSmall(a, d) == NatTrim(NatDivSmallFrom(a, d, Len(a), 0))

\* a * 2^n
NatShl(a, n) ==
    IF a = <<>> THEN <<>>
    ELSE Zeros(n \div LimbBits) \o NatMulSmall(a, 2^(n % LimbBits))

\* floor(a / 2^n)
NatShr(a, n) ==
    IF n \div LimbBits >= Len(a) THEN <<>>
    ELSE NatDivSmall(SubSeq(a, n \div LimbBits + 1, Len(a)), 2^(n % LimbBits))

RECURSIVE IntBitLen(_)
IntBitLen(n) == IF n = 0 THEN 0 ELSE 1 + IntBitLen(n \div 2)

NatBitLen(a) ==
    IF a = <<>> THEN 0 ELSE LimbBits * (Len(a) - 1) + IntBitLen(a[Len(a)])

NatIsOdd(a) == a # <<>> /\ a[1] % 2 = 1

RECURSIVE NatToIntFrom(_, _, _, _)
NatToIntFrom(a, i, sgn, acc) ==
    IF i = 0 THEN acc
    ELSE NatToIntFrom(a, i - 1, sgn, acc * Base + sgn * a[i])

\* sgn * a as an integer of TLC, for sgn in {-1, 1} and -2^31 <= sgn*a < 2^31
NatToInt(a, sgn) == NatToIntFrom(a, Len(a), sgn, 0)

(***************************************************************************)
(* IEEE-754 binary64 arithmetic, as numpy's float64 and Python's float     *)
(* compute it: every result is the exact result rounded to nearest, ties   *)
(* to even.  A finite nonzero float has a mantissa of exactly MantBits     *)
(* bits; zero has the empty mantissa (the sign of zero is not modelled).   *)
(***************************************************************************)
MantBits == 53

FZero == [k |-> "fin", s |-> 0, m |-> <<>>, e |-> 0]

FInf(s) == [k |-> "inf", s |-> s, m |-> <<>>, e |-> 0]

FNaN == [k |-> "nan", s |-> 0, m |-> <<>>, e |-> 0]

FIsZero(a) == a.k = "fin" /\ a.m = <<>>

\* the float of sign s, mantissa q and exponent e, for q of MantBits bits,
\* and for q = 2^MantBits (a mantissa that rounding carried out of its width)
FPack(s, q, e) ==
    IF NatBitLen(q) > MantBits
    THEN [k |-> "fin", s |-> s, m |-> NatShr(q, 1), e |-> e + 1]
    ELSE [k |-> "fin", s |-> s, m |-> q, e |-> e]

\* round to nearest, ties to even: q, or q + 1; c is -1, 0 or 1 as the
\* bits dropped from q are less than, equal to or more than half a unit
RoundUp(q, c, sticky) ==
    IF c > 0 \/ (c = 0 /\ (sticky \/ NatIsOdd(q))) THEN NatAdd(q, <<1>>) ELSE q

\* M has sh bits more than MantBits, and q = floor(M / 2^sh)
FRoundQ(s, M, e, sticky, sh, q) ==
    FPack(s,
          RoundUp(q, NatCmp(NatSub(M, NatShl(q, sh)), NatShl(<<1>>, sh - 1)),
                  sticky),
          e + sh)

\* M # 0 has MantBits + sh bits (sh may be negative)
FRoundTo(s, M, e, sticky, sh) ==
    IF sh <= 0
    THEN [k |-> "fin", s |-> s, m |-> NatShl(M, -sh), e |-> e + sh]
    ELSE FRoundQ(s, M, e, sticky, sh, NatShr(M, sh))

\* (-1)^s * M * 2^e rounded to a float; sticky says that the exact value
\* is a little more than M * 2^e in magnitude (by less than 2^e)
FRound(s, M, e, sticky) ==
    IF M = <<>> THEN FZero
    ELSE FRoundTo(s, M, e, sticky, NatBitLen(M) - MantBits)

\* the float of an integer n, -2^31 <= n < 2^31 (exact)
FFromInt(n) ==
    FRound(IF n >= 0 THEN 0 ELSE 1,
           IF n >= 0 THEN NatFromInt(n)
           ELSE NatAdd(NatFromInt(-(n + 1)), <<1>>),
           0, FALSE)

\* 2^n as a float, n any integer (exact)
FPow2(n) == FRound(0, <<1>>, n, FALSE)

FNeg(a) == IF a.k = "nan" \/ FIsZero(a) THEN a ELSE [a EXCEPT !.s = 1 - a.s]

FAbs(a) == IF a.k = "nan" THEN a ELSE [a EXCEPT !.s = 0]

\* -1, 0 or 1: the sign of a float that is not a NaN
FSgn(a) == IF FIsZero(a) THEN 0 ELSE IF a.s = 1 THEN -1 ELSE 1

\* compares the magnitudes of two floats that are not NaN
FCmpMag(a, b) ==
    IF a.k = "inf" \/ b.k = "inf"
    THEN (IF a.k = b.k THEN 0 ELSE IF a.k = "inf" THEN 1 ELSE -1)
    ELSE IF FIsZero(a) \/ FIsZero(b)
    THEN (IF FIsZero(a) /\ FIsZero(b) THEN 0 ELSE IF FIsZero(a) THEN -1 ELSE 1)
    ELSE IF a.e # b.e THEN (IF a.e < b.e THEN -1 ELSE 1)
    ELSE NatCmp(a.m, b.m)

\* -1, 0 or 1 as a < b, a = b, a > b, for floats that are not NaN
FCmp(a, b) ==
    IF FSgn(a) # FSgn(b) THEN (IF FSgn(a) < FSgn(b) THEN -1 ELSE 1)
    ELSE FSgn(a) * FCmpMag(a, b)

\* a < b and a > b; every comparison with a NaN is false
FLess(a, b) == a.k # "nan" /\ b.k # "nan" /\ FCmp(a, b) < 0

FGreater(a, b) == FLess(b, a)

FMul(a, b) ==
    IF a.k = "nan" \/ b.k = "nan" THEN FNaN
    ELSE IF a.k = "inf" \/ b.k = "inf"
    THEN (IF FIsZero(a) \/ FIsZero(b) THEN FNaN ELSE FInf((a.s + b.s) % 2))
    ELSE IF FIsZero(a) \/ FIsZero(b) THEN FZero
    ELSE FRound((a.s + b.s) % 2, NatMul(a.m, b.m), a.e + b.e, FALSE)

\* long division of mantissas, DigitBits quotient bits a step
DigitBits == 14

RECURSIVE DivFix(_, _, _)
DivFix(q, rem, D) ==
    IF NatCmp(rem, D) >= 0 THEN DivFix(q + 1, NatSub(rem, D), D)
    ELSE <<q, rem>>

\* <<q, N - q * D>> with q = floor(N / D), for N < D * 2^DigitBits, from
\* qhat <= q
DivCorrect(N, D, qhat) == DivFix(qhat, NatSub(N, NatMulSmall(D, qhat)), D)

\* q is estimated from below with the bits of N and D above bit t
DivEstimate(N, D, t) ==
    DivCorrect(N, D,
               NatToInt(NatShr(N, t), 1) \div (NatToInt(NatShr(D, t), 1) + 1))

\* <<q, R * 2^DigitBits - q * D>> with q = floor(R * 2^DigitBits / D), for
\* R < D: the estimate uses the leading 16 bits of D
DivDigit(R, D) == DivEstimate(NatShl(R, DigitBits), D, NatBitLen(D) - 16)

\* n more digits: <<the quotient, the rest>>
RECURSIVE DivDigits(_, _, _, _)
RECURSIVE DivNext(_, _, _, _)
DivNext(qr, D, Q, n) ==
    DivDigits(qr[2], D, NatAdd(NatShl(Q, DigitBits), NatFromInt(qr[1])), n - 1)

DivDigits(R, D, Q, n) ==
    IF n = 0 THEN <<Q, R>> ELSE DivNext(DivDigit(R, D), D, Q, n)

\* <<floor(a * 2^(4 * DigitBits) / b), whether the division left a rest>>,
\* for mantissas a and b of MantBits bits each
MantDiv(a, b) ==
    DivDigits(IF NatCmp(a, b) >= 0 THEN NatSub(a, b) ELSE a, b,
              IF NatCmp(a, b) >= 0 THEN <<1>> ELSE <<>>, 4)

\* the quotient qr[1] * 2^e, with a rest qr[2], rounded
FRoundDiv(s, qr, e) == FRound(s, qr[1], e, qr[2] # <<>>)

FDiv(a, b) ==
    IF a.k = "nan" \/ b.k = "nan" THEN FNaN
    ELSE IF a.k = "inf" THEN (IF b.k = "inf" THEN FNaN ELSE FInf((a.s + b.s) % 2))
    ELSE IF b.k = "inf" THEN FZero
    ELSE IF FIsZero(b) THEN (IF FIsZero(a) THEN FNaN ELSE FInf((a.s + b.s) % 2))
    ELSE IF FIsZero(a) THEN FZero
    ELSE FRoundDiv((a.s + b.s) % 2, MantDiv(a.m, b.m),
                   a.e - b.e - 4 * DigitBits)

\* [s, M, e, sticky], the exact sum of hi and lo, or the sum short of a
\* sticky rest: lo is less than an eighth of the last bit of hi
AddFar(hi, lo) ==
    [s |-> hi.s, e |-> hi.e - 3, sticky |-> TRUE,
     M |-> IF hi.s = lo.s THEN NatShl(hi.m, 3)
           ELSE NatSub(NatShl(hi.m, 3), <<1>>)]

\* the exact sum, A being the mantissa of hi at the exponent of lo
AddNear(hi, lo, A) ==
    [s |-> IF hi.s = lo.s \/ NatCmp(A, lo.m) >= 0 THEN hi.s ELSE lo.s,
     e |-> lo.e, sticky |-> FALSE,
     M |-> IF hi.s = lo.s THEN NatAdd(A, lo.m)
           ELSE IF NatCmp(A, lo.m) >= 0 THEN NatSub(A, lo.m)
           ELSE NatSub(lo.m, A)]

FRoundSum(t) == FRound(t.s, t.M, t.e, t.sticky)

\* the sum of two finite nonzero floats, hi the one of the larger exponent
FAddFin(hi, lo) ==
    FRoundSum(IF hi.e - lo.e > MantBits + 3 THEN AddFar(hi, lo)
              ELSE AddNear(hi, lo, NatShl(hi.m, hi.e - lo.e)))

FAdd(a, b) ==
    IF a.k = "nan" \/ b.k = "nan" THEN FNaN
    ELSE IF a.k = "inf" /\ b.k = "inf" THEN (IF a.s = b.s THEN a ELSE FNaN)
    ELSE IF a.k = "inf" THEN a
    ELSE IF b.k = "inf" THEN b
    ELSE IF FIsZero(a) THEN b
    ELSE IF FIsZero(b) THEN a
    ELSE FAddFin(IF a.e >= b.e THEN a ELSE b, IF a.e >= b.e THEN b ELSE a)

FSub(a, b) == FAdd(a, FNeg(b))

\* numpy.sign: -1.0, 0.0 or 1.0, and NaN for a NaN
FSign(a) == IF a.k = "nan" THEN FNaN ELSE FFromInt(FSgn(a))

\* the ceiling of a float a with a fraction, q = floor(|a|)
FCeilFrom(a, q) ==
    FRound(a.s,
           IF a.s = 1 \/ NatShl(q, -a.e) = a.m THEN q ELSE NatAdd(q, <<1>>),
           0, FALSE)

\* numpy.ceil
FCeil(a) ==
    IF a.k # "fin" \/ FIsZero(a) \/ a.e >= 0 THEN a
    ELSE FCeilFrom(a, NatShr(a.m, -a.e))

\* the integer part of a finite float of magnitude at most 2^31 (C
\* truncation, which is what astype does to a float in the target's range)
FTrunc(a) ==
    IF FIsZero(a) THEN 0
    ELSE NatToInt(IF a.e >= 0 THEN NatShl(a.m, a.e) ELSE NatShr(a.m, -a.e),
                  IF a.s = 1 THEN -1 ELSE 1)

(***************************************************************************)
(* Integers of the input array.  An element of an int64 or uint32 array    *)
(* may not fit an integer of TLC, so an input integer is a sign and a      *)
(* magnitude; the converted samples (at most 32 bits) are plain integers.  *)
(***************************************************************************)
IV(n) ==
    IF n >= 0 THEN [neg |-> FALSE, mag |-> NatFromInt(n)]
    ELSE [neg |-> TRUE, mag |-> NatAdd(NatFromInt(-(n + 1)), <<1>>)]

\* 2^n, and -(2^n), as input integers
IVPow2(n) == [neg |-> FALSE, mag |-> NatShl(<<1>>, n)]

IVNegPow2(n) == [neg |-> TRUE, mag |-> NatShl(<<1>>, n)]

\* a + d for an input integer a and a small integer d of TLC
IVPlus(a, d) ==
    LET dm == NatFromInt(IF d < 0 THEN -d ELSE d)
    IN  IF d = 0 THEN a
        ELSE IF a.neg = (d < 0)
        THEN [neg |-> a.neg, mag |-> NatAdd(a.mag, dm)]
        ELSE IF NatCmp(a.mag, dm) = 0 THEN [neg |-> FALSE, mag |-> <<>>]
        ELSE IF NatCmp(a.mag, dm) > 0
        THEN [neg |-> a.neg, mag |-> NatSub(a.mag, dm)]
        ELSE [neg |-> ~a.neg, mag |-> NatSub(dm, a.mag)]

IVLess(a, b) ==
    IF a.neg # b.neg THEN a.neg
    ELSE IF a.neg THEN NatCmp(a.mag, b.mag) > 0
    ELSE NatCmp(a.mag, b.mag) < 0

\* an input integer within -2^31 .. 2^31 - 1 as an integer of TLC
IVToInt(a) == NatToInt(a.mag, IF a.neg THEN -1 ELSE 1)

(***************************************************************************)
(* numpy arrays: a dtype, a shape (<<n>> or <<frames, channels>>) and the  *)
(* elements in C order.                                                    *)
(***************************************************************************)
IntegerDTypes ==
    {"int8", "uint8", "int16", "uint16", "int32", "uint32", "int64"}

\* numpy.issubdtype(dtype, numpy.integer)
IsInteger(dtype) == dtype \in IntegerDTypes

\* numpy.issubdtype(dtype, numpy.floating)
IsFloating(dtype) == dtype = "float64"

\* a fault to test the properties against: every array taken for 16-bit
SixteenBit(dtype) == 2

\* dtype.itemsize
ItemSize(dtype) ==
    CASE dtype \in {"int8", "uint8"} -> 1
      [] dtype \in {"int16", "uint16"} -> 2
      [] dtype \in {"int32", "uint32"} -> 4
      [] dtype \in {"int64", "float64"} -> 8
      [] dtype = "complex128" -> 16

Array(dtype, shape, v) == [dtype |-> dtype, shape |-> shape, v |-> v]

\* a.ndim
NDim(a) == Len(a.shape)

\* a.reshape(-1, 1) of a 1-dimensional array
ReshapeColumn(a) == [a EXCEPT !.shape = <<a.shape[1], 1>>]

(***************************************************************************)
(* The tables of sample widths.                                            *)
(***************************************************************************)
_sampwidth_dtypes(sampwidth) ==
    CASE sampwidth = 1 -> "uint8"
      [] sampwidth = 2 -> "int16"
      [] sampwidth = 3 -> "int32"
      [] sampwidth = 4 -> "int32"

\* <<outmin, outmax>>; 2^31 is no integer of TLC, so -2**31 and 2**31 - 1
\* are written with 2^30
_sampwidth_minmax(sampwidth) ==
    CASE sampwidth = 1 -> <<0, 255>>
      [] sampwidth = 2 -> <<-(2^15), 2^15 - 1>>
      [] sampwidth = 3 -> <<-(2^23), 2^23 - 1>>
      [] sampwidth = 4 -> <<-(2^30) - 2^30, 2^30 - 1 + 2^30>>

(***************************************************************************)
(* The width codec.                                                        *)
(***************************************************************************)
\* a fault to test the properties against: the shift by 8*j left out
LowByte(v, j) == v % 256

\* byte j (0 the lowest) of the two's complement form of v: (v >> 8*j) & 255
ByteOf(v, j) == (v \div 2^(8 * j)) % 256

\* the little-endian bytes of the elements of v, n bytes each
RECURSIVE ToBytes(_, _)
ToBytes(v, n) ==
    IF v = <<>> THEN <<>>
    ELSE [j \in 1..n |-> ByteOf(Head(v), j - 1)] \o ToBytes(Tail(v), n)

\* the string of WAV data of an array: when sampwidth is 3 the low three
\* bytes of each element, and otherwise all the bytes of each element (as
\* many as the dtype of the array has)
_array2wav(a, sampwidth) ==
    IF sampwidth = 3 THEN ToBytes(a.v, 3)
    ELSE ToBytes(a.v, ItemSize(a.dtype))

\* a fault to test the properties against: the fourth byte left at zero
NoSignByte(b2) == 0

\* the byte a[:, :, 3] that _wav2array appends to the three bytes of a
\* 24-bit sample: (b2 >> 7) * 255
SignByte(b2) == (b2 \div 128) * 255

\* four little-endian bytes viewed as '<i4'
ViewI4(b0, b1, b2, b3) ==
    b0 + 256 * b1 + 65536 * b2 + 16777216 * (IF b3 >= 128 THEN b3 - 256 ELSE b3)

\* a fault to test the properties against: every width decoded unsigned
RECURSIVE DecodeUnsigned(_, _, _)
DecodeUnsigned(data, i, sampwidth) ==
    IF sampwidth = 1 THEN data[i]
    ELSE data[i] + 256 * DecodeUnsigned(data, i + 1, sampwidth - 1)

\* the sample that starts at byte i (1-based) of data
DecodeSample(data, i, sampwidth) ==
    CASE sampwidth = 1 -> data[i]
      [] sampwidth = 2 ->
           data[i] + 256 * (IF data[i + 1] >= 128 THEN data[i + 1] - 256
                            ELSE data[i + 1])
      [] sampwidth = 3 ->
           ViewI4(data[i], data[i + 1], data[i + 2], SignByte(data[i + 2]))
      [] sampwidth = 4 ->
           ViewI4(data[i], data[i + 1], data[i + 2], data[i + 3])

\* a fault to test the properties against: the remainder not looked at,
\* the whole frames decoded
DecodeWholeFrames(nchannels, sampwidth, data) ==
    IF sampwidth > 4
    THEN [err |-> "ValueError: sampwidth", arr |-> Array("none", <<>>, <<>>),
          rate |-> 0, sampwidth |-> 0]
    ELSE [err |-> "none", rate |-> 0, sampwidth |-> 0,
          arr |-> Array(IF sampwidth = 1 THEN "uint8"
                        ELSE IF sampwidth = 2 THEN "int16" ELSE "int32",
                        <<Len(data) \div (sampwidth * nchannels), nchannels>>,
                        [n \in 1..((Len(data) \div (sampwidth * nchannels))
                                      * nchannels) |->
                            DecodeSample(data, sampwidth * (n - 1) + 1,
                                         sampwidth)])]

\* a fault to test the properties against: sampwidth > 4 looked at before
\* the length
DecodeWidthFirst(nchannels, sampwidth, data) ==
    IF sampwidth > 4
    THEN [err |-> "ValueError: sampwidth", arr |-> Array("none", <<>>, <<>>),
          rate |-> 0, sampwidth |-> 0]
    ELSE IF Len(data) % (sampwidth * nchannels) > 0
    THEN [err |-> "ValueError: length", arr |-> Array("none", <<>>, <<>>),
          rate |-> 0, sampwidth |-> 0]
    ELSE DecodeWholeFrames(nchannels, sampwidth, data)

\* [err, arr, rate, sampwidth]: the error raised ("none" when it returns)
\* and the array returned; rate and sampwidth are for read to fill in
_wav2array(nchannels, sampwidth, data) ==
    LET num_samples == Len(data) \div (sampwidth * nchannels)
        remainder == Len(data) % (sampwidth * nchannels)
        none == Array("none", <<>>, <<>>)
    IN  IF remainder > 0
        THEN [err |-> "ValueError: length", arr |-> none, rate |-> 0,
              sampwidth |-> 0]
        ELSE IF sampwidth > 4
        THEN [err |-> "ValueError: sampwidth", arr |-> none, rate |-> 0,
              sampwidth |-> 0]
        ELSE [err |-> "none", rate |-> 0, sampwidth |-> 0,
              arr |-> Array(IF sampwidth = 3 THEN "int32"
                            ELSE IF sampwidth = 1 THEN "uint8"
                            ELSE IF sampwidth = 2 THEN "int16" ELSE "int32",
                            <<num_samples, nchannels>>,
                            [n \in 1..(num_samples * nchannels) |->
                                DecodeSample(data, sampwidth * (n - 1) + 1,
                                             sampwidth)])]

(***************************************************************************)
(* The amplitude mapper.                                                   *)
(***************************************************************************)
FOne == FFromInt(1)

FHalf == FPow2(-1)

\* a fault to test the properties against: ceil(x - 0.5), the sign ignored
RoundHalfUp(x) == FCeil(FSub(x, FHalf))

_round_with_half_towards_zero(x) ==
    FMul(FSign(x), FCeil(FSub(FAbs(x), FHalf)))

\* numpy.max(numpy.r_[v, 0]) of a sequence of floats
RECURSIVE MaxWithZero(_)
MaxWithZero(v) ==
    IF v = <<>> THEN FZero
    ELSE LET r == MaxWithZero(Tail(v))
         IN  IF FGreater(Head(v), r) THEN Head(v) ELSE r

\* Python's max(a, b)
PyMax(a, b) == IF FGreater(b, a) THEN b ELSE a

Positive(t) == FGreater(t, FZero)

Negative(t) == FLess(t, FZero)

MapNeg(v) == [i \in DOMAIN v |-> FNeg(v[i])]

\* a fault to test the properties against: c = 2**(nbits - 1)
FullScale(sampwidth) == FPow2(8 * sampwidth - 1)

\* c = 2**(nbits - 1) - 0.5
ClipC(sampwidth) == FSub(FPow2(8 * sampwidth - 1), FHalf)

\* the scale the mapper divides by
ResolveScale(x, sampwidth, scale) ==
    IF scale.tag = "auto"
    THEN PyMax(MaxWithZero(SelectSeq(x.v, Positive)),
               FDiv(MaxWithZero(MapNeg(SelectSeq(x.v, Negative))),
                    FAdd(FOne, FDiv(FOne, ClipC(sampwidth)))))
    ELSE IF scale.tag = "none" THEN FOne
    ELSE scale.val

\* <<int_min, midpoint, int_max>>; -2**(nbits - 1) and 2**(nbits - 1) - 1
\* are written with 2^(nbits - 2), 2^31 being no integer of TLC
IntDomain(sampwidth) ==
    IF sampwidth = 1 THEN <<0, 128, 255>>
    ELSE <<-(2^(8 * sampwidth - 2)) - 2^(8 * sampwidth - 2), 0,
           2^(8 * sampwidth - 2) - 1 + 2^(8 * sampwidth - 2)>>

\* scaled_x = x / scale, element by element
RECURSIVE ScaledX(_, _)
ScaledX(v, scale) ==
    IF v = <<>> THEN <<>>
    ELSE <<FDiv(Head(v), scale)>> \o ScaledX(Tail(v), scale)

\* a fault to test the properties against: the lower limit not looked at
AboveOne(scaled_x, c) == \E i \in DOMAIN scaled_x : FGreater(scaled_x[i], FOne)

\* a fault to test the properties against: the ends of the interval taken
\* for violations
ClipViolationClosed(scaled_x, c) ==
    LET lower == FSub(FFromInt(-1), FDiv(FOne, c))
    IN  \/ \E i \in DOMAIN scaled_x : ~FLess(scaled_x[i], FOne)
        \/ \E i \in DOMAIN scaled_x : ~FGreater(scaled_x[i], lower)

\* numpy.any(scaled_x > 1) or numpy.any(scaled_x < -1 - 1/c)
ClipViolation(scaled_x, c) ==
    LET lower == FSub(FFromInt(-1), FDiv(FOne, c))
    IN  \/ \E i \in DOMAIN scaled_x : FGreater(scaled_x[i], FOne)
        \/ \E i \in DOMAIN scaled_x : FLess(scaled_x[i], lower)

\* numpy.clip of one float to [lo, hi]; a NaN stays a NaN
FClip(y, lo, hi) ==
    IF y.k = "nan" THEN y
    ELSE IF FLess(y, FFromInt(lo)) THEN FFromInt(lo)
    ELSE IF FGreater(y, FFromInt(hi)) THEN FFromInt(hi)
    ELSE y

\* astype(integer dtype) of a clipped float; the cast of a NaN is undefined
\* in C, and ub is the value the cast produces
FloatAsType(y, ub) == IF y.k = "nan" THEN ub ELSE FTrunc(y)

\* the values the cast of a NaN to the dtype of a sample width produces on
\* the usual builds: the "integer indefinite" value of x86 truncated to the
\* dtype, or 0
NanCasts(sampwidth) ==
    IF sampwidth \in {3, 4} THEN {-(2^30) - 2^30, 0} ELSE {0}

\* y = midpoint + round(x/scale*c), clipped and cast
MapSample(sx, c, dom, ub) ==
    FloatAsType(FClip(FAdd(FFromInt(dom[2]),
                           _round_with_half_towards_zero(FMul(sx, c))),
                      dom[1], dom[3]), ub)

\* [err, warned, arr]
_float_to_integer(x, sampwidth, scale, clip, ub) ==
    LET c == ClipC(sampwidth)
        scale1 == ResolveScale(x, sampwidth, scale)
        dom == IntDomain(sampwidth)
        scaled_x == ScaledX(x.v, scale1)
        violated == ClipViolation(scaled_x, c)
    IN  IF violated /\ clip = "raise"
        THEN [err |-> "ClippedDataError", warned |-> FALSE,
              arr |-> Array("none", <<>>, <<>>)]
        ELSE [err |-> "none", warned |-> violated /\ clip = "warn",
              arr |-> Array(_sampwidth_dtypes(sampwidth), x.shape,
                            [i \in DOMAIN x.v |->
                                MapSample(scaled_x[i], c, dom, ub)])]

(***************************************************************************)
(* The range clipper for integer input.                                    *)
(***************************************************************************)
RECURSIVE ArrayMin(_)
ArrayMin(v) ==
    IF Len(v) = 1 THEN v[1]
    ELSE LET r == ArrayMin(Tail(v))
         IN  IF IVLess(Head(v), r) THEN Head(v) ELSE r

RECURSIVE ArrayMax(_)
ArrayMax(v) ==
    IF Len(v) = 1 THEN v[1]
    ELSE LET r == ArrayMax(Tail(v))
         IN  IF IVLess(r, Head(v)) THEN Head(v) ELSE r

\* a fault to test the properties against: data.min() not looked at
AboveMax(data, outmin, outmax) == IVLess(IV(outmax), ArrayMax(data.v))

\* data.min() < outmin or data.max() > outmax
IntClipViolation(data, outmin, outmax) ==
    IVLess(ArrayMin(data.v), IV(outmin)) \/ IVLess(IV(outmax), ArrayMax(data.v))

\* a fault to test the properties against: negative values clipped to 0
IntClipUnsigned(a, outmin, outmax) ==
    IF a.neg THEN 0
    ELSE IF IVLess(IV(outmax), a) THEN outmax
    ELSE IVToInt(a)

\* one element of data.clip(outmin, outmax).astype(outdtype)
IntClip(a, outmin, outmax) ==
    IF IVLess(a, IV(outmin)) THEN outmin
    ELSE IF IVLess(IV(outmax), a) THEN outmax
    ELSE IVToInt(a)

(***************************************************************************)
(* write, up to the string of WAV data: [err, warned, arr, sampwidth,      *)
(* wavdata].  sampwidth is [given, w] (given = FALSE for None) and scale   *)
(* is [tag, val] with tag "none", "auto" or "num".                         *)
(***************************************************************************)
Failed(err) ==
    [err |-> err, warned |-> FALSE, arr |-> Array("none", <<>>, <<>>),
     sampwidth |-> 0, wavdata |-> <<>>]

Converted(warned, arr, sampwidth) ==
    LET data == IF NDim(arr) = 1 THEN ReshapeColumn(arr) ELSE arr
    IN  [err |-> "none", warned |-> warned, arr |-> data,
         sampwidth |-> sampwidth, wavdata |-> _array2wav(data, sampwidth)]

\* a fault to test the properties against: the scale not looked at
ConvertIntegerAnyScale(data, sampwidth, scale, clip) ==
    Converted(FALSE,
              Array(_sampwidth_dtypes(sampwidth), data.shape,
                    [i \in DOMAIN data.v |->
                        IntClip(data.v[i], _sampwidth_minmax(sampwidth)[1],
                                _sampwidth_minmax(sampwidth)[2])]),
              sampwidth)

ConvertInteger(data, sampwidth, scale, clip) ==
    LET outmin == _sampwidth_minmax(sampwidth)[1]
        outmax == _sampwidth_minmax(sampwidth)[2]
        clipped == IntClipViolation(data, outmin, outmax)
    IN  IF scale.tag # "none" THEN Failed("ValueError: scale")
        ELSE IF clipped /\ clip = "raise" THEN Failed("ClippedDataError")
        ELSE Converted(clipped /\ clip = "warn",
                       Array(_sampwidth_dtypes(sampwidth), data.shape,
                             [i \in DOMAIN data.v |->
                                 IntClip(data.v[i], outmin, outmax)]),
                       sampwidth)

ConvertFloat(data, sampwidth, scale, clip, ub) ==
    LET r == _float_to_integer(data, sampwidth, scale, clip, ub)
    IN  IF r.err # "none" THEN Failed(r.err)
        ELSE Converted(r.warned, r.arr, sampwidth)

WriteConvert(data, scale, sampwidth, clip, ub) ==
    IF clip \notin {"ignore", "warn", "raise"} THEN Failed("ValueError: clip")
    ELSE IF ~sampwidth.given
            /\ (~IsInteger(data.dtype) \/ ItemSize(data.dtype) > 4)
    THEN Failed("ValueError: sampwidth must be specified")
    ELSE IF sampwidth.given /\ sampwidth.w \notin {1, 2, 3, 4}
    THEN Failed("ValueError: sampwidth")
    ELSE LET sw == IF sampwidth.given THEN sampwidth.w
                   ELSE ItemSize(data.dtype)
         IN  IF IsInteger(data.dtype)
             THEN ConvertInteger(data, sw, scale, clip)
             ELSE IF IsFloating(data.dtype)
             THEN ConvertFloat(data, sw, scale, clip, ub)
             ELSE Failed("TypeError")

(***************************************************************************)
(* The inputs of the calls.                                                *)
(***************************************************************************)
\* the most elements an integer input array has
MaxSamples == 2

\* the most bytes a byte string handed to _wav2array has
MaxRawLen == 6

\* the most channels _wav2array is called with
MaxChannels == 2

\* the shapes of the arrays of n elements: 1-dimensional, or frames by channels
ShapesOf(n) ==
    {<<n>>} \cup {<<f, n \div f>> : f \in {g \in 1..n : n % g = 0}}

\* values of each integer dtype, at and around the limits of the sample widths
IntVals(dtype) ==
    CASE dtype = "int8" -> {IV(-128), IV(-1), IV(0), IV(127)}
      [] dtype = "uint8" -> {IV(0), IV(128), IV(255)}
      [] dtype = "int16" -> {IV(-32768), IV(-1), IV(256), IV(32767)}
      [] dtype = "uint16" -> {IV(0), IV(32767), IV(32768), IV(65535)}
      [] dtype = "int32" ->
           {IVNegPow2(31), IV(-(2^23) - 1), IV(-(2^23)), IV(100),
            IV(2^23 - 1), IVPlus(IVPow2(31), -1)}
      [] dtype = "uint32" ->
           {IV(0), IVPlus(IVPow2(31), -1), IVPow2(31), IVPlus(IVPow2(32), -1)}
      [] dtype = "int64" ->
           {IVNegPow2(63), IVPlus(IVNegPow2(31), -1), IV(100), IV(300),
            IVPow2(31), IVPlus(IVPow2(63), -1)}

IntArrays ==
    UNION {UNION {{Array(dtype, shape, v) :
                      shape \in ShapesOf(n), v \in [1..n -> IntVals(dtype)]} :
                  n \in 1..MaxSamples} :
           dtype \in IntegerDTypes}

\* p / q as a float (the float nearest to the fraction)
Frac(p, q) == FDiv(FFromInt(p), FFromInt(q))

\* a float given by its sign, the limbs of its mantissa and its exponent
Lit(s, m, e) == [k |-> "fin", s |-> s, m |-> m, e |-> e]

\* -1.0103515947108015
AutoProbe == Lit(1, <<26832, 24087, 10649, 129>>, -52)

\* k / c for the c of a sample width: x with x/1.0*c at or next to k
OverC(k, sampwidth) == FDiv(k, ClipC(sampwidth))

\* -(1 + 1/c), the lower end of the interval that is not clipped (scale 1)
LowerEnd(sampwidth) == FNeg(FAdd(FOne, FDiv(FOne, ClipC(sampwidth))))

FloatArrays ==
    {Array("float64", <<3>>, <<FFromInt(-1), FZero, FOne>>),
     Array("float64", <<3>>, <<FFromInt(-2), FZero, FFromInt(2)>>),
     Array("float64", <<3>>, <<Frac(-1, 10), FZero, Frac(1, 10)>>),
     Array("float64", <<3>>, <<Frac(-10075, 10000), Frac(-1005, 1000), FOne>>),
     Array("float64", <<3>>, <<Frac(1, 2), Frac(-9, 10), Frac(-3, 2)>>),
     Array("float64", <<1, 2>>, <<Frac(1, 4), Frac(-1, 2)>>),
     Array("float64", <<2, 1>>, <<FFromInt(3), FFromInt(-1)>>),
     Array("float64", <<2>>, <<FOne, FFromInt(-3)>>),
     Array("float64", <<2>>, <<FZero, FZero>>),
     Array("float64", <<1>>, <<AutoProbe>>),
     Array("float64", <<2>>, <<AutoProbe, Frac(3, 10)>>),
     Array("float64", <<2>>, <<FAdd(FOne, FPow2(-52)), FSub(FOne, FPow2(-53))>>)}
    \cup {Array("float64", <<3>>,
                <<OverC(Frac(1, 2), w), OverC(Frac(3, 2), w),
                  OverC(Frac(-5, 2), w)>>) : w \in 1..4}
    \cup {Array("float64", <<2>>,
                <<LowerEnd(w), FSub(LowerEnd(w), FPow2(-50))>>) : w \in 1..4}
    \cup {Array("float64", <<1>>, <<LowerEnd(w)>>) : w \in 1..4}
    \cup {Array("float64", <<1>>, <<FSub(LowerEnd(w), FPow2(-52))>>) : w \in 1..4}

OtherArrays == {Array("complex128", <<1>>, <<FZero>>)}

Rates == {44100}

NoScale == [tag |-> "none", val |-> FZero]

AutoScale == [tag |-> "auto", val |-> FZero]

NumScale(x) == [tag |-> "num", val |-> x]

\* scale: None, "auto", 1.0, 2, 0.1, 0 and -1.0
Scales ==
    {NoScale, AutoScale, NumScale(FOne), NumScale(FFromInt(2)),
     NumScale(Frac(1, 10)), NumScale(FZero), NumScale(FFromInt(-1))}

\* the scales given with integer input
IntScales == {NoScale, AutoScale, NumScale(FOne)}

\* sampwidth: None, 1, 2, 3, 4 and 5
Sampwidths ==
    {[given |-> FALSE, w |-> 0]} \cup {[given |-> TRUE, w |-> w] : w \in 1..5}

Clips == {"ignore", "warn", "raise", "clamp"}

ByteVals == {0, 127, 128, 255}

RawStrings == UNION {[1..n -> ByteVals] : n \in 0..MaxRawLen}

(***************************************************************************)
(* The state: where the call is, its arguments, what write converted the   *)
(* data to, the warnings emitted, the error raised, the WAV file, and      *)
(* what read or _wav2array returned.                                       *)
(***************************************************************************)
VARIABLES pc, call, conv, warnings, error, file, raw, result

vars == <<pc, call, conv, warnings, error, file, raw, result>>

NoArray == Array("none", <<>>, <<>>)

NoCall ==
    [data |-> NoArray, rate |-> 0, scale |-> NoScale,
     sampwidth |-> [given |-> FALSE, w |-> 0], clip |-> "none"]

NoFile ==
    [state |-> "absent", nchannels |-> 0, sampwidth |-> 0, framerate |-> 0,
     nframes |-> 0, frames |-> <<>>]

NoRaw == [nchannels |-> 0, sampwidth |-> 0, data |-> <<>>]

NoResult == [err |-> "none", arr |-> NoArray, rate |-> 0, sampwidth |-> 0]

Init ==
    /\ pc = "idle"
    /\ call = NoCall
    /\ conv = Failed("none")
    /\ warnings = 0
    /\ error = "none"
    /\ file = NoFile
    /\ raw = NoRaw
    /\ result = NoResult

\* a fault to test the properties against: the file opened before the
\* arguments are checked and the data converted
OpenBeforeChecks(data, rate, scale, sampwidth, clip) ==
    /\ pc = "idle"
    /\ \E ub \in NanCasts(sampwidth.w) :
          conv' = WriteConvert(data, scale, sampwidth, clip, ub)
    /\ warnings' = warnings + (IF conv'.warned THEN 1 ELSE 0)
    /\ error' = conv'.err
    /\ pc' = IF conv'.err = "none" THEN "converted" ELSE "failed"
    /\ call' = [data |-> data, rate |-> rate, scale |-> scale,
                sampwidth |-> sampwidth, clip |-> clip]
    /\ file' = [NoFile EXCEPT !.state = "open", !.framerate = rate]
    /\ UNCHANGED <<raw, result>>

\* write, from its start to the string of WAV data: the checks of the
\* arguments and the conversion of the data
write(data, rate, scale, sampwidth, clip) ==
    /\ pc = "idle"
    /\ \E ub \in NanCasts(sampwidth.w) :
          conv' = WriteConvert(data, scale, sampwidth, clip, ub)
    /\ warnings' = warnings + (IF conv'.warned THEN 1 ELSE 0)
    /\ error' = conv'.err
    /\ pc' = IF conv'.err = "none" THEN "converted" ELSE "failed"
    /\ call' = [data |-> data, rate |-> rate, scale |-> scale,
                sampwidth |-> sampwidth, clip |-> clip]
    /\ UNCHANGED <<file, raw, result>>

\* w = wave.open(file, 'wb') and the header: setnchannels, setsampwidth,
\* setframerate
wave_open ==
    /\ pc = "converted"
    /\ file' = [state |-> "open", nchannels |-> conv.arr.shape[2],
                sampwidth |-> conv.sampwidth, framerate |-> call.rate,
                nframes |-> 0, frames |-> <<>>]
    /\ pc' = "opened"
    /\ UNCHANGED <<call, conv, warnings, error, raw, result>>

\* w.writeframes(wavdata)
wave_writeframes ==
    /\ pc = "opened"
    /\ file' = [file EXCEPT
                  !.frames = conv.wavdata,
                  !.nframes = Len(conv.wavdata)
                                 \div (file.sampwidth * file.nchannels)]
    /\ pc' = "framed"
    /\ UNCHANGED <<call, conv, warnings, error, raw, result>>

\* w.close()
wave_close ==
    /\ pc = "framed"
    /\ file' = [file EXCEPT !.state = "closed"]
    /\ pc' = "closed"
    /\ UNCHANGED <<call, conv, warnings, error, raw, result>>

\* wav.readframes(nframes)
ReadFrames(f) == SubSeq(f.frames, 1, f.nframes * f.sampwidth * f.nchannels)

\* read, of the file that write wrote
read ==
    /\ pc = "closed"
    /\ result' = [_wav2array(file.nchannels, file.sampwidth, ReadFrames(file))
                  EXCEPT !.rate = file.framerate, !.sampwidth = file.sampwidth]
    /\ error' = result'.err
    /\ pc' = "read"
    /\ UNCHANGED <<call, conv, warnings, file, raw>>

\* _wav2array, called with any byte string
wav2array(nchannels, sampwidth, data) ==
    /\ pc = "idle"
    /\ raw' = [nchannels |-> nchannels, sampwidth |-> sampwidth, data |-> data]
    /\ result' = [_wav2array(nchannels, sampwidth, data)
                  EXCEPT !.rate = 0, !.sampwidth = sampwidth]
    /\ error' = result'.err
    /\ pc' = "decoded"
    /\ UNCHANGED <<call, conv, warnings, file>>

WriteInteger ==
    /\ pc = "idle"
    /\ \E data \in IntArrays, rate \in Rates, scale \in IntScales,
          sampwidth \in Sampwidths, clip \in Clips :
           write(data, rate, scale, sampwidth, clip)

WriteFloat ==
    /\ pc = "idle"
    /\ \E data \in FloatArrays \cup OtherArrays, rate \in Rates, scale \in Scales,
          sampwidth \in Sampwidths, clip \in Clips :
           write(data, rate, scale, sampwidth, clip)

Decode ==
    /\ pc = "idle"
    /\ \E nchannels \in 1..MaxChannels, sampwidth \in 1..5, data \in RawStrings :
           wav2array(nchannels, sampwidth, data)

Next ==
    \/ WriteInteger
    \/ WriteFloat
    \/ wave_open
    \/ wave_writeframes
    \/ wave_close
    \/ read
    \/ Decode

Spec == Init /\ [][Next]_vars
(***************************************************************************)
(* The vocabulary of the properties.  The domains of the sample widths,    *)
(* the clamp and the interval that is not clipped are written here as the  *)
(* specification of wavio states them, not as the program computes them.   *)
(***************************************************************************)
\* write was called: call holds its arguments
Called == pc \notin {"idle", "decoded"}

ValidClip == call.clip \in {"ignore", "warn", "raise"}

GivenWidth == call.sampwidth.given /\ call.sampwidth.w \in 1..4

NativeTypes == {"int8", "uint8", "int16", "uint16", "int32", "uint32"}

\* the bytes of an element of a native type
NativeSize(dtype) ==
    CASE dtype \in {"int8", "uint8"} -> 1
      [] dtype \in {"int16", "uint16"} -> 2
      [] dtype \in {"int32", "uint32"} -> 4

InferredWidth == ~call.sampwidth.given /\ call.data.dtype \in NativeTypes

\* the sample width of the call, given or inferred
Width ==
    IF call.sampwidth.given THEN call.sampwidth.w
    ELSE NativeSize(call.data.dtype)

\* a call with an integer array that passes the checks of the arguments
IntegerCall ==
    /\ Called
    /\ ValidClip
    /\ IsInteger(call.data.dtype)
    /\ call.scale = NoScale
    /\ GivenWidth \/ InferredWidth

\* a call with a float array that passes the checks of the arguments
FloatCall ==
    /\ Called
    /\ ValidClip
    /\ IsFloating(call.data.dtype)
    /\ GivenWidth

\* the domain of a width: 0..255, or -2^(8w-1) .. 2^(8w-1) - 1
DomainMin(w) == IF w = 1 THEN 0 ELSE -(2^(8 * w - 2)) - 2^(8 * w - 2)

DomainMax(w) == IF w = 1 THEN 255 ELSE 2^(8 * w - 2) - 1 + 2^(8 * w - 2)

Midpoint(w) == IF w = 1 THEN 128 ELSE 0

InDomain(a, w) ==
    ~IVLess(a, IV(DomainMin(w))) /\ ~IVLess(IV(DomainMax(w)), a)

AllInDomain == \A i \in DOMAIN call.data.v : InDomain(call.data.v[i], Width)

\* an input integer clamped to the domain of a width
Clamped(a, w) ==
    IF IVLess(a, IV(DomainMin(w))) THEN DomainMin(w)
    ELSE IF IVLess(IV(DomainMax(w)), a) THEN DomainMax(w)
    ELSE IVToInt(a)

\* the shape read returns for an array written: frames by channels
FrameShape(a) == IF Len(a.shape) = 1 THEN <<a.shape[1], 1>> ELSE a.shape

\* read returned the elements of the array written, in their places
ReadBackExact ==
    /\ result.arr.shape = FrameShape(call.data)
    /\ DOMAIN result.arr.v = DOMAIN call.data.v
    /\ \A i \in DOMAIN call.data.v : IV(result.arr.v[i]) = call.data.v[i]

\* c = 2^(8w-1) - 0.5
HalfRange(w) == FSub(FPow2(8 * w - 1), FHalf)

\* -(1 + 1/c)
LowerLimit(w) == FNeg(FAdd(FOne, FDiv(FOne, HalfRange(w))))

\* x/s > 1 or x/s < -(1 + 1/c), in float64
OutOfInterval(x, s, w) ==
    FGreater(FDiv(x, s), FOne) \/ FLess(FDiv(x, s), LowerLimit(w))

\* at least one value of the call would be clipped
WouldClip ==
    IF IsInteger(call.data.dtype) THEN ~AllInDomain
    ELSE LET s == ResolveScale(call.data, Width, call.scale)
         IN  \E i \in DOMAIN call.data.v :
                 OutOfInterval(call.data.v[i], s, Width)

(***************************************************************************)
(* The properties.                                                         *)
(***************************************************************************)
\* C1: an integer array whose values all lie in the domain of width w,
\* written with the explicit sample width w, is written without a clipping
\* warning and without an error, and read returns its values unchanged at
\* the same frame and channel positions.
C1_RoundTrip ==
    (IntegerCall /\ GivenWidth /\ AllInDomain)
        => /\ error = "none"
           /\ pc # "failed"
           /\ warnings = 0
           /\ pc = "read" => ReadBackExact

\* a 24-bit file of two channels with a negative sample was read back
C1_Witness ==
    /\ pc = "read"
    /\ IntegerCall /\ GivenWidth /\ AllInDomain
    /\ Width = 3
    /\ result.arr.shape[2] = 2
    /\ \E i \in DOMAIN call.data.v :
           call.data.v[i].neg /\ result.arr.v[i] < -256

\* the byte string that _wav2array decoded
Decoded ==
    IF pc = "decoded" THEN raw
    ELSE [nchannels |-> file.nchannels, sampwidth |-> file.sampwidth,
          data |-> ReadFrames(file)]

\* C2: decoding at width 3 sign-extends.  For a byte string of valid
\* length the sample of frame f and channel ch is
\* b0 + 256*b1 + 65536*b2 - (2^24 if b2 >= 128), from the three bytes at
\* offset 3*(f*nchannels + ch); it lies in -8388608 .. 8388607, and the
\* bytes FF FF FF give -1.
C2_SignExtension ==
    (/\ pc \in {"decoded", "read"}
     /\ Decoded.sampwidth = 3
     /\ Len(Decoded.data) % (3 * Decoded.nchannels) = 0)
        => LET nch == Decoded.nchannels
               data == Decoded.data
               frames == Len(data) \div (3 * nch)
           IN  /\ error = "none"
               /\ result.arr.shape = <<frames, nch>>
               /\ DOMAIN result.arr.v = 1..(frames * nch)
               /\ \A f \in 0..(frames - 1), ch \in 0..(nch - 1) :
                      LET o == 3 * (f * nch + ch)
                          b0 == data[o + 1]
                          b1 == data[o + 2]
                          b2 == data[o + 3]
                          y == result.arr.v[f * nch + ch + 1]
                      IN  /\ y = b0 + 256 * b1 + 65536 * b2
                                   - (IF b2 >= 128 THEN 2^24 ELSE 0)
                          /\ y \in -8388608..8388607
                          /\ (b0 = 255 /\ b1 = 255 /\ b2 = 255) => y = -1

\* two channels of 24 bits were decoded: FF FF FF to -1, 00 00 80 to -2^23
C2_Witness ==
    /\ pc = "decoded"
    /\ raw.sampwidth = 3
    /\ raw.nchannels = 2
    /\ raw.data = <<255, 255, 255, 0, 0, 128>>
    /\ result.arr.v = <<-1, -8388608>>

\* C3: with clip "raise", when at least one value would be clipped (an
\* integer outside the domain of the width; a float with x/scale > 1 or
\* x/scale < -(1 + 1/c)), write fails with ClippedDataError and the output
\* is neither opened nor written.
C3_RaiseBeforeOutput ==
    ((IntegerCall \/ FloatCall) /\ call.clip = "raise" /\ WouldClip)
        => /\ error = "ClippedDataError"
           /\ pc = "failed"
           /\ file = NoFile

\* a float array with a value below -(1 + 1/c) * scale was refused
C3_Witness ==
    /\ pc = "failed"
    /\ FloatCall
    /\ call.clip = "raise"
    /\ call.scale = NumScale(FFromInt(2))
    /\ \E i \in DOMAIN call.data.v : call.data.v[i] = FFromInt(-3)
    /\ error = "ClippedDataError"
    /\ file = NoFile

\* C4: for integer input with clip "ignore" or "warn", write does not fail
\* on values outside the domain; every sample written is the input value
\* clamped to the domain of the width, so a value in the domain is written
\* unchanged.
C4_IntegerClamp ==
    (IntegerCall /\ call.clip \in {"ignore", "warn"})
        => /\ error = "none"
           /\ pc # "failed"
           /\ \A i \in DOMAIN call.data.v :
                  conv.arr.v[i] = Clamped(call.data.v[i], Width)
           /\ pc \in {"framed", "closed", "read"}
                  => file.frames = _array2wav(conv.arr, Width)
           /\ pc = "read"
                  => \A i \in DOMAIN call.data.v :
                         result.arr.v[i] = Clamped(call.data.v[i], Width)

\* 8-bit samples were read back: a negative input as 0, one above 255 as
\* 255, one in the domain as it was
C4_Witness ==
    /\ pc = "read"
    /\ IntegerCall
    /\ call.clip = "ignore"
    /\ Width = 1
    /\ call.data.v = <<IV(-1), IV(256)>>
    /\ result.arr.v = <<0, 255>>

\* the fixed scale of the call (1.0 when no scale is given)
FixedScale == IF call.scale.tag = "none" THEN FOne ELSE call.scale.val

\* C5: for every width and every fixed scale s > 0 (no scale counting as
\* 1.0) the mapper maps the float inputs -s, 0 and s to int_min + 1, the
\* midpoint and int_max of the width, and finds no clip violation: write
\* succeeds, under clip "raise" too, and warns of nothing.
C5_ScaleLimits ==
    (/\ FloatCall
     /\ pc \in {"converted", "failed"}
     /\ call.scale.tag \in {"none", "num"}
     /\ FGreater(FixedScale, FZero)
     /\ \A i \in DOMAIN call.data.v :
            call.data.v[i] \in {FixedScale, FZero, FNeg(FixedScale)})
        => /\ error = "none"
           /\ warnings = 0
           /\ \A i \in DOMAIN call.data.v :
                  conv.arr.v[i] =
                      IF call.data.v[i] = FixedScale THEN DomainMax(Width)
                      ELSE IF call.data.v[i] = FZero THEN Midpoint(Width)
                      ELSE DomainMin(Width) + 1

\* [-0.1, 0, 0.1] was mapped with scale 0.1 and clip "raise" to the limits
\* of 32 bits
C5_Witness ==
    /\ pc = "converted"
    /\ FloatCall
    /\ call.clip = "raise"
    /\ call.scale = NumScale(Frac(1, 10))
    /\ Width = 4
    /\ call.data.v = <<Frac(-1, 10), FZero, Frac(1, 10)>>
    /\ conv.arr.v = <<-2147483647, 0, 2147483647>>

\* C6: the mapper rounds to the nearest integer, a tie towards zero: a
\* sample that the clamp did not touch is midpoint + r with
\* |x/scale*c - r| <= 0.5, and |r| < |x/scale*c| when the distance is 0.5
\* (k + 0.5 rounds to k and -(k + 0.5) to -k).  At width 2 with scale 1.0
\* the input with x/scale*c = 1.5 gives midpoint + 1 and the input 0.5/c
\* gives the midpoint.
C6_HalfTowardsZero ==
    (FloatCall /\ pc = "converted")
        => LET s == ResolveScale(call.data, Width, call.scale)
           IN  \A i \in DOMAIN call.data.v :
                   LET v == FMul(FDiv(call.data.v[i], s), HalfRange(Width))
                       y == conv.arr.v[i]
                       d == FAbs(FSub(v, FFromInt(y - Midpoint(Width))))
                   IN  /\ (/\ v.k = "fin"
                           /\ DomainMin(Width) < y
                           /\ y < DomainMax(Width))
                              => /\ ~FGreater(d, FHalf)
                                 /\ d = FHalf
                                        => FLess(FAbs(FFromInt(y - Midpoint(Width))),
                                                 FAbs(v))
                       /\ (Width = 2 /\ s = FOne /\ v = Frac(3, 2)) => y = 1
                       /\ (/\ Width = 2
                           /\ s = FOne
                           /\ call.data.v[i] = FDiv(FHalf, HalfRange(2)))
                              => y = 0

\* the ties 0.5, 1.5 and -2.5 of 16 bits were mapped to 0, 1 and -2
C6_Witness ==
    /\ pc = "converted"
    /\ FloatCall
    /\ Width = 2
    /\ call.scale = NumScale(FOne)
    /\ \A i \in DOMAIN call.data.v :
           FMul(FDiv(call.data.v[i], FOne), HalfRange(2))
               = <<Frac(1, 2), Frac(3, 2), Frac(-5, 2)>>[i]
    /\ Len(call.data.v) = 3
    /\ conv.arr.v = <<0, 1, -2>>

\* C7: with scale "auto" and a float input that has a nonzero sample, no
\* clip violation is detected (no warning, no error), and the sample that
\* determines the scale, max(largest positive value, largest negated
\* negative value / (1 + 1/c)), is mapped to the end of the domain: int_max
\* when it is the positive extreme, int_min when it is the negative one.
C7_AutoScaleNeverClips ==
    (/\ FloatCall
     /\ pc \in {"converted", "failed"}
     /\ call.scale = AutoScale
     /\ \E i \in DOMAIN call.data.v : ~FIsZero(call.data.v[i]))
        => /\ error = "none"
           /\ warnings = 0
           /\ LET P == MaxWithZero(SelectSeq(call.data.v, Positive))
                  N == MaxWithZero(MapNeg(SelectSeq(call.data.v, Negative)))
                  Q == FDiv(N, FAdd(FOne, FDiv(FOne, HalfRange(Width))))
              IN  \A i \in DOMAIN call.data.v :
                      /\ (~FLess(P, Q) /\ call.data.v[i] = P)
                             => conv.arr.v[i] = DomainMax(Width)
                      /\ (FLess(P, Q) /\ call.data.v[i] = FNeg(N))
                             => conv.arr.v[i] = DomainMin(Width)

\* [-1.0103515947108015] at 8 bits with scale "auto" and clip "raise": the
\* call was refused
C7_Witness ==
    /\ pc = "failed"
    /\ FloatCall
    /\ call.scale = AutoScale
    /\ call.clip = "raise"
    /\ Width = 1
    /\ call.data.v = <<AutoProbe>>
    /\ error = "ClippedDataError"

\* C8: under clip "warn" one clipping warning is emitted exactly when a
\* value would be clipped, no error is raised, and the samples written are
\* those that clip "ignore" writes for the same input; under "ignore" no
\* warning is emitted.  This holds for integer and for float input.
C8_WarnLikeIgnore ==
    ((IntegerCall \/ FloatCall) /\ call.clip \in {"ignore", "warn"})
        => /\ error = "none"
           /\ pc # "failed"
           /\ call.clip = "ignore" => warnings = 0
           /\ (call.clip = "warn" /\ pc = "converted")
                  => /\ warnings = (IF WouldClip THEN 1 ELSE 0)
                     /\ \E ub \in NanCasts(Width) :
                            conv.wavdata =
                                WriteConvert(call.data, call.scale,
                                             call.sampwidth, "ignore",
                                             ub).wavdata
           /\ pc \in {"framed", "closed", "read"}
                  => file.frames = conv.wavdata

\* [1.0, -3.0] was written under "warn" with no scale: one warning, and the
\* frames of the file are the clamped samples
C8_Witness ==
    /\ pc = "closed"
    /\ FloatCall
    /\ call.clip = "warn"
    /\ call.scale = NoScale
    /\ Width = 2
    /\ call.data.v = <<FOne, FFromInt(-3)>>
    /\ warnings = 1
    /\ error = "none"
    /\ file.frames = <<255, 127, 0, 128>>

MissingWidth == "ValueError: sampwidth must be specified"

\* C9: when no sample width is given, write infers it as the item size
\* exactly when the input is an integer array of 1, 2 or 4 bytes an
\* element (so 3 is never inferred, and the sample width of the file is the
\* item size); for float input and for integers wider than 4 bytes it fails
\* with the missing-width error and no output is produced.
C9_WidthInference ==
    (Called /\ ValidClip /\ ~call.sampwidth.given)
        => IF call.data.dtype \in NativeTypes
           THEN /\ error # MissingWidth
                /\ pc # "failed"
                       => /\ conv.sampwidth = NativeSize(call.data.dtype)
                          /\ conv.sampwidth # 3
                /\ file.state # "absent"
                       => file.sampwidth = NativeSize(call.data.dtype)
                /\ pc = "read"
                       => result.sampwidth = NativeSize(call.data.dtype)
           ELSE /\ error = MissingWidth
                /\ pc = "failed"
                /\ file = NoFile

\* a uint32 array was written with no sample width given: the file has
\* 4-byte samples
C9_Witness ==
    /\ pc = "closed"
    /\ ValidClip
    /\ ~call.sampwidth.given
    /\ call.data.dtype = "uint32"
    /\ file.sampwidth = 4
    /\ file.state = "closed"

\* C10, as the claim states it: an array of a native 1-, 2- or 4-byte
\* integer type, of any values, written with no sample width given, is
\* read back with exactly its values.
C10_AnyValueRoundTrip ==
    (pc = "read" /\ IntegerCall /\ InferredWidth) => ReadBackExact

\* C10: an array of a native 1-, 2- or 4-byte integer type whose values lie
\* in the domain of the inferred width (0..255 for int8 and uint8, the
\* int16 range for int16 and uint16, the int32 range for int32 and uint32),
\* written with no sample width given, is written without a warning or an
\* error and read back with exactly its values.
C10_InferredRoundTrip ==
    (IntegerCall /\ InferredWidth /\ AllInDomain)
        => /\ error = "none"
           /\ pc # "failed"
           /\ warnings = 0
           /\ pc = "read" => ReadBackExact

\* a uint16 array with the value 32767 was written with no sample width
\* given and read back
C10_Witness ==
    /\ pc = "read"
    /\ IntegerCall /\ InferredWidth /\ AllInDomain
    /\ call.data.dtype = "uint16"
    /\ \E i \in DOMAIN call.data.v : result.arr.v[i] = 32767

\* the ValueErrors of write
ValueErrors ==
    {"ValueError: clip", MissingWidth, "ValueError: sampwidth",
     "ValueError: scale"}

\* C11: with integer input a scale, a number or "auto", makes write fail
\* with a ValueError whatever the data, the sample width and the clip
\* policy are, and no output is produced (when the other arguments are
\* valid the error is the one about the scale); integer input that is
\* written was given no scale and is only clamped.
C11_IntegerScaleRejected ==
    (Called /\ IsInteger(call.data.dtype))
        => /\ call.scale # NoScale
                  => /\ pc = "failed"
                     /\ error \in ValueErrors
                     /\ file = NoFile
                     /\ (ValidClip /\ (GivenWidth \/ InferredWidth))
                            => error = "ValueError: scale"
           /\ pc # "failed"
                  => /\ call.scale = NoScale
                     /\ \A i \in DOMAIN call.data.v :
                            conv.arr.v[i] = Clamped(call.data.v[i], Width)

\* an integer array with scale "auto" and valid other arguments was refused
C11_Witness ==
    /\ pc = "failed"
    /\ IsInteger(call.data.dtype)
    /\ call.scale = AutoScale
    /\ ValidClip
    /\ GivenWidth
    /\ AllInDomain
    /\ error = "ValueError: scale"
    /\ file = NoFile

\* C12: a call with float input and a numeric scale that is 0 or negative
\* fails, whatever the input, the sample width and the clip policy are,
\* and produces no mapped output.
C12_NonPositiveScaleFails ==
    (/\ FloatCall
     /\ call.scale.tag = "num"
     /\ ~FGreater(call.scale.val, FZero))
        => /\ pc = "failed"
           /\ error # "none"
           /\ file = NoFile

\* [0.0, 0.0] was written with scale 0 and clip "ignore": no error, and
\* the file is closed with its two frames
C12_Witness ==
    /\ pc = "closed"
    /\ FloatCall
    /\ call.scale = NumScale(FZero)
    /\ call.clip = "ignore"
    /\ call.data.v = <<FZero, FZero>>
    /\ error = "none"
    /\ file.state = "closed"
    /\ file.nframes = 2

\* C13: _wav2array, called with a sample width of 1..4 and a positive
\* number of channels, fails with the error about the length when the
\* length of the byte string is not a multiple of sampwidth * nchannels,
\* and otherwise succeeds and returns an array of
\* len / (sampwidth * nchannels) frames by nchannels channels.
C13_LengthContract ==
    (pc = "decoded" /\ raw.sampwidth \in 1..4)
        => IF Len(raw.data) % (raw.sampwidth * raw.nchannels) # 0
           THEN /\ error = "ValueError: length"
                /\ result.arr = NoArray
           ELSE /\ error = "none"
                /\ result.arr.shape =
                       <<Len(raw.data) \div (raw.sampwidth * raw.nchannels),
                         raw.nchannels>>
                /\ DOMAIN result.arr.v =
                       1..(Len(raw.data) \div raw.sampwidth)

\* six bytes of 16-bit samples in two channels were refused
C13_Witness ==
    /\ pc = "decoded"
    /\ raw.sampwidth = 2
    /\ raw.nchannels = 2
    /\ Len(raw.data) = 6
    /\ error = "ValueError: length"
    /\ result.arr = NoArray

\* C14, as the claim states it: _wav2array called with sampwidth > 4 fails
\* with the error "sampwidth must not be greater than 4" for every byte
\* string and number of channels, a string whose length is not a multiple
\* of sampwidth * nchannels included.
C14_AlwaysWidthError ==
    (pc = "decoded" /\ raw.sampwidth > 4)
        => /\ error = "ValueError: sampwidth"
           /\ result.arr = NoArray

\* C14: _wav2array called with sampwidth > 4 fails for every byte string
\* and number of channels and returns no array; the error is the one
\* about sampwidth exactly when the length is a multiple of
\* sampwidth * nchannels, and the one about the length otherwise.
C14_WideWidthFails ==
    (pc = "decoded" /\ raw.sampwidth > 4)
        => /\ result.arr = NoArray
           /\ IF Len(raw.data) % (raw.sampwidth * raw.nchannels) = 0
              THEN error = "ValueError: sampwidth"
              ELSE error = "ValueError: length"

\* six bytes were handed over as one channel of 5-byte samples: the error
\* is the one about the length
C14_Witness ==
    /\ pc = "decoded"
    /\ raw.sampwidth = 5
    /\ raw.nchannels = 1
    /\ Len(raw.data) = 6
    /\ error = "ValueError: length"
    /\ result.arr = NoArray

\* the errors of the write path
WriteErrors == ValueErrors \cup {"TypeError", "ClippedDataError"}

\* one step of a call of write (the decoding of a string of bytes is no
\* part of one): a step that fails leaves no file behind,
\* no step fails or raises an error once the file is open, and the frames
\* in the file are all the frames of the data
AtomicStep ==
    pc' # "decoded" =>
        /\ pc' = "failed" => (error' \in WriteErrors /\ file' = NoFile)
        /\ error' \in WriteErrors => (pc' = "failed" /\ file' = NoFile)
        /\ file.state # "absent" => (pc' # "failed" /\ error' = "none")
        /\ file'.frames # <<>>
               => Len(file'.frames) =
                      Len(call'.data.v)
                          * (IF call'.sampwidth.given THEN call'.sampwidth.w
                             ELSE NativeSize(call'.data.dtype))

\* C15: every failure of write (invalid clip, missing or invalid sample
\* width, a scale with integer input, an unsupported data type,
\* ClippedDataError under "raise") is raised before the file is opened.
\* In no execution is the file opened or a frame written and an error
\* raised afterwards: a call writes all its frames * channels * sampwidth
\* bytes, or nothing.
C15_FailBeforeOpen == [][AtomicStep]_vars

\* a complex array was refused with a TypeError and no file was opened
C15_Witness ==
    /\ pc = "failed"
    /\ GivenWidth
    /\ ValidClip
    /\ error = "TypeError"
    /\ file = NoFile

\* midpoint + round(x/s * c), the value before it is clamped and cast
PreClamp(x, s, w) ==
    FAdd(FFromInt(Midpoint(w)),
         _round_with_half_towards_zero(FMul(FDiv(x, s), HalfRange(w))))

\* a float below the least or above the greatest integer of a width
OutsideDomain(y, w) ==
    FLess(y, FFromInt(DomainMin(w))) \/ FGreater(y, FFromInt(DomainMax(w)))

\* the call found a clip violation: it raised ClippedDataError or warned
Detected == error = "ClippedDataError" \/ conv.warned

\* C16: in the mapper with a scale > 0, at every width, a clip violation
\* is detected if and only if the value midpoint + round(x/scale*c) of at
\* least one sample lies outside the domain of the width before it is
\* clamped; sample by sample, the inputs outside the detection interval
\* [-(1 + 1/c)*scale, scale] are exactly those the clamp changes: no
\* clipping goes undetected and there is no false alarm.
C16_DetectionExact ==
    (/\ FloatCall
     /\ pc \in {"converted", "failed"}
     /\ call.clip \in {"warn", "raise"}
     /\ FGreater(ResolveScale(call.data, Width, call.scale), FZero))
        => LET s == ResolveScale(call.data, Width, call.scale)
           IN  /\ Detected <=>
                      \E i \in DOMAIN call.data.v :
                          OutsideDomain(PreClamp(call.data.v[i], s, Width), Width)
               /\ \A i \in DOMAIN call.data.v :
                      OutOfInterval(call.data.v[i], s, Width) <=>
                          OutsideDomain(PreClamp(call.data.v[i], s, Width), Width)

\* -(1 + 1/c) of 16 bits, the lower end of the interval, alone in its
\* array, was written with clip "raise": nothing was detected and the value
\* is the least of the domain
C16_Witness ==
    /\ pc = "converted"
    /\ FloatCall
    /\ call.clip = "raise"
    /\ call.scale = NoScale
    /\ Width = 2
    /\ call.data.v = <<LowerLimit(2)>>
    /\ ~Detected
    /\ conv.arr.v = <<-32768>>

====
